---- MODULE Spec2Model ----
(***************************************************************************)
(* A model of scp.base_fluid.BaseFluid and scp.ethyl_alcohol.EthylAlcohol. *)
(*                                                                         *)
(* One fluid object is constructed and then queried.  The object is the    *)
(* variable self, a record of the attributes the constructors assign.      *)
(*                                                                         *)
(* Numbers are fixed point integers:                                       *)
(*   concentrations  in steps of 1/ConcScale (0.025), so that 0.05 and 0.6 *)
(*                   are on the grid;                                      *)
(*   temperatures    in steps of 1/TempScale degrees Celsius (1e-7);       *)
(*   the freeze-point coefficients in steps of 1/CoefScale (1e-8), the     *)
(*                   resolution of the literals of the source.             *)
(* Python's None is the empty tuple << >>.                                 *)
(***************************************************************************)
EXTENDS Integers, Sequences, FiniteSets, TLC

VARIABLES
    pc,       \* "start": nothing constructed yet; "ready": the constructor has returned
    cls,      \* the class of the object: "none", "Fluid" (any concrete subclass), "EthylAlcohol"
    self,     \* the attributes of the object
    op,       \* the last operation called
    arg,      \* its argument
    ret,      \* its return value (None when it returns nothing or raises)
    raised,   \* the exception it propagated to the caller, "none" when it returned
    warned,   \* the warnings it emitted through the warnings channel
    built,    \* exception and warning objects it built and dropped, in order
    calls     \* the validation methods it called, in order

vars == <<pc, cls, self, op, arg, ret, raised, warned, built, calls>>

None == << >>

----------------------------------------------------------------------------
(* Bounds of the inputs *)

\* bounds given to a generic fluid are drawn from 0..MaxBound
MaxBound == 2
\* query arguments reach MaxDelta steps beyond each bound of the object
MaxDelta == 2

----------------------------------------------------------------------------
(* Number representation *)

ConcScale == 4 * 10
TempScale == 10 ^ 7
CoefScale == 10 ^ 8

\* floor(a * num / den) for a, num >= 0, den > 0, without forming a * num
MulDiv(a, num, den) == (a \div den) * num + ((a % den) * num) \div den

\* a * num / den rounded towards zero
FMul(a, num, den) == IF a < 0 THEN 0 - MulDiv(0 - a, num, den) ELSE MulDiv(a, num, den)

----------------------------------------------------------------------------
(* BaseFluid *)

\* raise ValueError(msg) would end the caller; a bare ValueError(msg) builds the
\* object and drops it.  The result of a method is [self, ret, built, calls].

set_temperature_limits(s, t_min, t_max) ==
    [self  |-> ("t_min" :> t_min) @@ ("t_max" :> t_max) @@ s,
     built |-> IF t_min >= t_max THEN <<"ValueError">> ELSE << >>]

set_concentration(s, conc, c_min, c_max) ==
    LET s1 == ("c_min" :> c_min) @@ ("c_max" :> c_max) @@ s
        b1 == IF c_min >= c_max THEN <<"ValueError">> ELSE << >>
    IN  IF conc < s1.c_min
        THEN [self |-> ("c" :> s1.c_min) @@ s1, built |-> b1 \o <<"UserWarning">>]
        ELSE IF conc > s1.c_max
        THEN [self |-> ("c" :> s1.c_max) @@ s1, built |-> b1 \o <<"UserWarning">>]
        ELSE [self |-> ("c" :> conc) @@ s1, built |-> b1]

BaseFluid_init(t_min, t_max, conc, c_min, c_max) ==
    LET s0 == [t_min |-> None, t_max |-> None]
        r1 == set_temperature_limits(s0, t_min, t_max)
    IN  IF conc # None
        THEN LET s2 == ("c_min" :> None) @@ ("c_max" :> None) @@ ("c" :> None) @@ r1.self
                 r2 == set_concentration(s2, conc[1], c_min, c_max)
             IN  [self |-> r2.self, built |-> r1.built \o r2.built]
        ELSE [self |-> r1.self, built |-> r1.built]

\* the two tests of _check_temperature with their comparisons exchanged
check_temperature_swapped(s, temp) ==
    IF temp > s.t_min
    THEN [ret |-> s.t_min, built |-> <<"UserWarning">>]
    ELSE IF temp < s.t_max
    THEN [ret |-> s.t_max, built |-> <<"UserWarning">>]
    ELSE [ret |-> temp, built |-> << >>]

check_temperature(s, temp) ==
    IF temp < s.t_min
    THEN [ret |-> s.t_min, built |-> <<"UserWarning">>]
    ELSE IF temp > s.t_max
    THEN [ret |-> s.t_max, built |-> <<"UserWarning">>]
    ELSE [ret |-> temp, built |-> << >>]

check_concentration(s, conc) ==
    IF conc < s.c_min
    THEN [ret |-> s.c_min, built |-> <<"UserWarning">>]
    ELSE IF conc > s.c_max
    THEN [ret |-> s.c_max, built |-> <<"UserWarning">>]
    ELSE [ret |-> conc, built |-> << >>]

----------------------------------------------------------------------------
(* EthylAlcohol *)

\* a decimal literal of the source: m * 10^e
F(m, e) == [m |-> m, e |-> e]

\* coefficient_viscosity with the last entry of its fourth row left out
coefficient_viscosity_short ==
    << <<F(14740, -4), F(-47450, -6), F(43140, -8), F(-30230, -10)>>,
       <<F(15650, -6), F(-41060, -9), F(-51350, -10), F(70040, -12)>>,
       <<F(-84350, -8), F(16400, -9), F(-10910, -11), F(-19670, -13)>>,
       <<F(75520, -10), F(-11180, -11)>>,
       <<F(15290, -11), F(-94810, -14)>>,
       <<F(-41300, -13)>> >>

coefficient_viscosity ==
    << <<F(14740, -4), F(-47450, -6), F(43140, -8), F(-30230, -10)>>,
       <<F(15650, -6), F(-41060, -9), F(-51350, -10), F(70040, -12)>>,
       <<F(-84350, -8), F(16400, -9), F(-10910, -11), F(-19670, -13)>>,
       <<F(75520, -10), F(-11180, -11), F(18990, -13)>>,
       <<F(15290, -11), F(-94810, -14)>>,
       <<F(-41300, -13)>> >>

coefficient_specific_heat ==
    << <<F(42040, -1), F(23190, -4), F(-30420, -6), F(68600, -8)>>,
       <<F(-21020, -3), F(49270, -5), F(-30720, -7), F(-56900, -9)>>,
       <<F(-37140, -5), F(-23350, -7), F(-19600, -9), F(74610, -11)>>,
       <<F(17430, -6), F(-29690, -8), F(19010, -10)>>,
       <<F(-62920, -9), F(53530, -10)>>,
       <<F(-82900, -10)>> >>

coefficient_conductivity ==
    << <<F(40670, -5), F(67750, -8), F(31050, -11), F(-20000, -12)>>,
       <<F(-50080, -7), F(-23770, -9), F(-32160, -12), F(83620, -15)>>,
       <<F(28010, -9), F(26690, -11), F(-36060, -13), F(15520, -15)>>,
       <<F(-20090, -12), F(-68130, -13), F(14290, -14)>>,
       <<F(-15060, -13), F(11670, -14)>>,
       <<F(-16530, -15)>> >>

coefficient_density ==
    << <<F(96190, -2), F(-52220, -5), F(-32810, -7), F(15690, -9)>>,
       <<F(-14330, -4), F(-19890, -6), F(18700, -8), F(-91540, -11)>>,
       <<F(-22600, -6), F(22810, -8), F(-85810, -12), F(40560, -13)>>,
       <<F(-16900, -8), F(85940, -10), F(-96070, -12)>>,
       <<F(12910, -9), F(-15900, -11)>>,
       <<F(-83180, -12)>> >>

\* super().__init__(0.0, 40, x, 0.0, 0.6)
Ethyl_t_min == 0 * TempScale
Ethyl_t_max == 40 * TempScale
Ethyl_c_min == 0 * ConcScale
Ethyl_c_max == (6 * ConcScale) \div 10

\* if x < 0.05
freeze_threshold == (5 * ConcScale) \div 100

\* [2.4685e00, -9.8592e-01, 1.6750e-02, -1.8251e-04] in steps of 1/CoefScale
coefficient_freeze == <<246850000, -98592000, 1675000, -18251>>

\* x ** p: Python gives 1 for every x when p is 0
pow(x, p) == IF p = 0 THEN 1 ELSE x ^ p

RECURSIVE sum(_)
sum(seq) == IF seq = << >> THEN 0 ELSE Head(seq) + sum(Tail(seq))

\* sum(i * j for i, j in zip(coefficients, [x**p for p in range(n)])), x in
\* steps of 1/ConcScale, the result in steps of 1/TempScale
polynomial(coefficients, x) ==
    LET c_pow == [p \in 1 .. Len(coefficients) |-> pow(x, p - 1)]
    IN  sum([p \in 1 .. Len(coefficients) |->
               FMul(coefficients[p], c_pow[p],
                    pow(ConcScale, p - 1) * (CoefScale \div TempScale))])

\* calc_freeze_point clamping its argument before the test against 0.05
calc_freeze_point_clamp_first(s, x) ==
    LET r == check_concentration(s, x)
    IN  IF r.ret < freeze_threshold
        THEN [ret |-> 0, built |-> r.built, calls |-> <<"_check_concentration">>]
        ELSE [ret   |-> polynomial(coefficient_freeze, r.ret),
              built |-> r.built,
              calls |-> <<"_check_concentration">>]

\* calc_freeze_point without the call of _check_concentration
calc_freeze_point_unclamped(s, x) ==
    IF x < freeze_threshold
    THEN [ret |-> 0, built |-> << >>, calls |-> << >>]
    ELSE [ret |-> polynomial(coefficient_freeze, x), built |-> << >>, calls |-> << >>]

calc_freeze_point(s, x) ==
    IF x < freeze_threshold
    THEN [ret |-> 0, built |-> << >>, calls |-> << >>]
    ELSE LET r == check_concentration(s, x)
         IN  [ret   |-> polynomial(coefficient_freeze, r.ret),
              built |-> r.built,
              calls |-> <<"_check_concentration">>]

\* BaseMelinder.__init__ hands its five arguments to BaseFluid.__init__
BaseMelinder_init(t_min, t_max, x, x_min, x_max) ==
    LET r == BaseFluid_init(t_min, t_max, <<x>>, x_min, x_max)
    IN  [self  |-> ("x_base" :> None) @@ ("t_base" :> None) @@ ("t_freeze" :> None) @@ r.self,
         built |-> r.built]

EthylAlcohol_init(x) ==
    LET r == BaseMelinder_init(Ethyl_t_min, Ethyl_t_max, x, Ethyl_c_min, Ethyl_c_max)
        f == calc_freeze_point(r.self, x)
    IN  [self  |-> ("t_min" :> f.ret) @@ ("t_freeze" :> f.ret)
                   @@ ("x_base" :> F(292361, -4)) @@ ("t_base" :> F(81578, -4)) @@ r.self,
         built |-> r.built \o f.built,
         calls |-> <<"_set_temperature_limits", "_set_concentration", "calc_freeze_point">>
                   \o f.calls]

----------------------------------------------------------------------------
(* Property accessors *)

\* The four base properties are evaluated by BaseMelinder: the temperature is
\* clamped and the coefficient table is evaluated at the clamped temperature
\* and the concentration of the object.  The value is kept as a term.
f_prop(s, table, temp) ==
    LET r == check_temperature(s, temp)
    IN  [ret   |-> [f |-> "evaluate_property", coefficients |-> table,
                    temperature |-> r.ret, concentration |-> s.c],
         built |-> r.built]

viscosity(s, temp) == f_prop(s, "coefficient_viscosity", temp)
specific_heat(s, temp) == f_prop(s, "coefficient_specific_heat", temp)
density(s, temp) == f_prop(s, "coefficient_density", temp)
conductivity(s, temp) == f_prop(s, "coefficient_conductivity", temp)

mu(s, temp) == viscosity(s, temp)
cp(s, temp) == specific_heat(s, temp)
rho(s, temp) == density(s, temp)
k(s, temp) == conductivity(s, temp)

\* self.cp(temp) * self.mu(temp) / self.k(temp)
prandtl(s, temp) ==
    LET a == cp(s, temp)
        b == mu(s, temp)
        d == k(s, temp)
    IN  [ret   |-> [f |-> "div", num |-> [f |-> "mul", left |-> a.ret, right |-> b.ret],
                    den |-> d.ret],
         built |-> a.built \o b.built \o d.built]

pr(s, temp) == prandtl(s, temp)

\* self.k(temp) / (self.rho(temp) * self.cp(temp))
thermal_diffusivity(s, temp) ==
    LET a == k(s, temp)
        b == rho(s, temp)
        d == cp(s, temp)
    IN  [ret   |-> [f |-> "div", num |-> a.ret,
                    den |-> [f |-> "mul", left |-> b.ret, right |-> d.ret]],
         built |-> a.built \o b.built \o d.built]

alpha(s, temp) == thermal_diffusivity(s, temp)

AccessorNames ==
    {"viscosity", "mu", "specific_heat", "cp", "density", "rho", "conductivity", "k",
     "prandtl", "pr", "thermal_diffusivity", "alpha"}

accessor(name, s, temp) ==
    CASE name = "viscosity" -> viscosity(s, temp)
      [] name = "mu" -> mu(s, temp)
      [] name = "specific_heat" -> specific_heat(s, temp)
      [] name = "cp" -> cp(s, temp)
      [] name = "density" -> density(s, temp)
      [] name = "rho" -> rho(s, temp)
      [] name = "conductivity" -> conductivity(s, temp)
      [] name = "k" -> k(s, temp)
      [] name = "prandtl" -> prandtl(s, temp)
      [] name = "pr" -> pr(s, temp)
      [] name = "thermal_diffusivity" -> thermal_diffusivity(s, temp)
      [] name = "alpha" -> alpha(s, temp)

TableNames ==
    {"coefficient_viscosity", "coefficient_specific_heat",
     "coefficient_conductivity", "coefficient_density"}

table(name) ==
    CASE name = "coefficient_viscosity" -> coefficient_viscosity
      [] name = "coefficient_specific_heat" -> coefficient_specific_heat
      [] name = "coefficient_conductivity" -> coefficient_conductivity
      [] name = "coefficient_density" -> coefficient_density

----------------------------------------------------------------------------
(* Inputs *)

Optional(S) == {None} \cup {<<v>> : v \in S}

Bounds == 0 .. MaxBound

Around(v) == (v - MaxDelta) .. (v + MaxDelta)

Temps ==
    IF pc = "ready"
    THEN Around(self.t_min) \cup Around(self.t_max)
    ELSE {}

Concs ==
    IF pc = "ready" /\ "c" \in DOMAIN self
    THEN Around(self.c_min) \cup Around(self.c_max)
    ELSE Around(0)

EthylConcs == Around(Ethyl_c_min) \cup Around(freeze_threshold) \cup Around(Ethyl_c_max)

----------------------------------------------------------------------------
(* Operations *)

Init ==
    /\ pc = "start"
    /\ cls = "none"
    /\ self = None
    /\ op = "none"
    /\ arg = None
    /\ ret = None
    /\ raised = "none"
    /\ warned = << >>
    /\ built = << >>
    /\ calls = << >>

\* a concrete subclass handing its own limits to BaseFluid.__init__
NewFluid(t_min, t_max, conc, c_min, c_max) ==
    /\ pc = "start"
    /\ LET r == BaseFluid_init(t_min, t_max, conc, c_min, c_max)
       IN  /\ self' = r.self
           /\ built' = r.built
    /\ pc' = "ready"
    /\ cls' = "Fluid"
    /\ op' = "__init__"
    /\ arg' = [t_min |-> t_min, t_max |-> t_max, conc |-> conc, c_min |-> c_min, c_max |-> c_max]
    /\ ret' = None
    /\ raised' = "none"
    /\ warned' = << >>
    /\ calls' = IF conc # None
                THEN <<"_set_temperature_limits", "_set_concentration">>
                ELSE <<"_set_temperature_limits">>

NewEthylAlcohol(x) ==
    /\ pc = "start"
    /\ LET r == EthylAlcohol_init(x)
       IN  /\ self' = r.self
           /\ built' = r.built
           /\ calls' = r.calls
    /\ pc' = "ready"
    /\ cls' = "EthylAlcohol"
    /\ op' = "__init__"
    /\ arg' = [t_min |-> Ethyl_t_min, t_max |-> Ethyl_t_max, conc |-> <<x>>,
               c_min |-> Ethyl_c_min, c_max |-> Ethyl_c_max]
    /\ ret' = None
    /\ raised' = "none"
    /\ warned' = << >>

CheckTemperature(temp) ==
    /\ pc = "ready"
    /\ LET r == check_temperature(self, temp)
       IN  /\ ret' = r.ret
           /\ built' = r.built
    /\ op' = "_check_temperature"
    /\ arg' = temp
    /\ raised' = "none"
    /\ warned' = << >>
    /\ calls' = << >>
    /\ UNCHANGED <<pc, cls, self>>

\* an object built without a concentration has no c_min: reading it raises
CheckConcentration(conc) ==
    /\ pc = "ready"
    /\ IF "c_min" \in DOMAIN self
       THEN LET r == check_concentration(self, conc)
            IN  /\ ret' = r.ret
                /\ built' = r.built
                /\ raised' = "none"
       ELSE /\ ret' = None
            /\ built' = << >>
            /\ raised' = "AttributeError"
    /\ op' = "_check_concentration"
    /\ arg' = conc
    /\ warned' = << >>
    /\ calls' = << >>
    /\ UNCHANGED <<pc, cls, self>>

\* calc_freeze_point keeping its result in the object, as the constructor does
CalcFreezePoint_storing(x) ==
    /\ pc = "ready"
    /\ cls = "EthylAlcohol"
    /\ LET r == calc_freeze_point(self, x)
       IN  /\ ret' = r.ret
           /\ built' = r.built
           /\ calls' = r.calls
           /\ self' = ("t_min" :> r.ret) @@ ("t_freeze" :> r.ret) @@ self
    /\ op' = "calc_freeze_point"
    /\ arg' = x
    /\ raised' = "none"
    /\ warned' = << >>
    /\ UNCHANGED <<pc, cls>>

CalcFreezePoint(x) ==
    /\ pc = "ready"
    /\ cls = "EthylAlcohol"
    /\ LET r == calc_freeze_point(self, x)
       IN  /\ ret' = r.ret
           /\ built' = r.built
           /\ calls' = r.calls
    /\ op' = "calc_freeze_point"
    /\ arg' = x
    /\ raised' = "none"
    /\ warned' = << >>
    /\ UNCHANGED <<pc, cls, self>>

Coefficients(name) ==
    /\ pc = "ready"
    /\ cls = "EthylAlcohol"
    /\ ret' = table(name)
    /\ op' = name
    /\ arg' = None
    /\ raised' = "none"
    /\ warned' = << >>
    /\ built' = << >>
    /\ calls' = << >>
    /\ UNCHANGED <<pc, cls, self>>

Accessor(name, temp) ==
    /\ pc = "ready"
    /\ cls = "EthylAlcohol"
    /\ LET r == accessor(name, self, temp)
       IN  /\ ret' = r.ret
           /\ built' = r.built
    /\ op' = name
    /\ arg' = temp
    /\ raised' = "none"
    /\ warned' = << >>
    /\ calls' = <<"_check_temperature">>
    /\ UNCHANGED <<pc, cls, self>>

Next ==
    \/ \E x \in EthylConcs : NewEthylAlcohol(x)
    \/ \E t_min \in Bounds, t_max \in Bounds, c_min \in Bounds, c_max \in Bounds :
          \E conc \in Optional(Around(c_min) \cup Around(c_max)) :
             NewFluid(t_min, t_max, conc, c_min, c_max)
    \/ \E temp \in Temps : CheckTemperature(temp)
    \/ \E conc \in Concs : CheckConcentration(conc)
    \/ \E x \in EthylConcs : CalcFreezePoint(x)
    \/ \E name \in TableNames : Coefficients(name)
    \/ \E name \in AccessorNames, temp \in Temps : Accessor(name, temp)

Spec == Init /\ [][Next]_vars

----------------------------------------------------------------------------
(* The claims *)

Constructed == pc = "ready"

HasConcentration == Constructed /\ "c" \in DOMAIN self

IsMethod(name) == Constructed /\ op = name /\ raised = "none"

\* C1: a constructor given t_min >= t_max, or c_min >= c_max, signals an error
\* to its caller and yields no object.
C1_InvertedBoundsAreRejected ==
    (/\ op = "__init__"
     /\ \/ arg.t_min >= arg.t_max
        \/ arg.conc # None /\ arg.c_min >= arg.c_max)
    => (raised # "none" /\ ~Constructed)

\* C2: _check_temperature returns t_min for a value below t_min, t_max for a
\* value above t_max and the value itself otherwise; _check_concentration does
\* the same with c_min and c_max.
C2_ClampPolicy ==
    /\ IsMethod("_check_temperature") =>
          /\ arg < self.t_min => ret = self.t_min
          /\ arg > self.t_max => ret = self.t_max
          /\ (arg >= self.t_min /\ arg <= self.t_max) => ret = arg
    /\ IsMethod("_check_concentration") =>
          /\ arg < self.c_min => ret = self.c_min
          /\ arg > self.c_max => ret = self.c_max
          /\ (arg >= self.c_min /\ arg <= self.c_max) => ret = arg

\* C3: a clamp given a value outside the bounds of the object emits a warning
\* and returns normally.
C3_OutOfRangeIsWarned ==
    /\ (/\ Constructed
        /\ op = "_check_temperature"
        /\ (arg < self.t_min \/ arg > self.t_max))
       => (warned # << >> /\ raised = "none")
    /\ (/\ HasConcentration
        /\ op = "_check_concentration"
        /\ (arg < self.c_min \/ arg > self.c_max))
       => (warned # << >> /\ raised = "none")
    /\ (/\ HasConcentration
        /\ op = "__init__"
        /\ (arg.conc[1] < arg.c_min \/ arg.conc[1] > arg.c_max))
       => (warned # << >> /\ raised = "none")

\* C4: the concentration an object stores lies within [c_min, c_max].
C4_ConcentrationWithinBounds ==
    HasConcentration => (self.c_min <= self.c /\ self.c <= self.c_max)

\* C5: every object has t_min < t_max and c_min < c_max, an EthylAlcohol with
\* t_min set to its freeze point included.
C5_BoundsAreOrdered ==
    /\ Constructed => self.t_min < self.t_max
    /\ HasConcentration => self.c_min < self.c_max

\* C6: calc_freeze_point returns exactly 0 for an argument below 0.05, without
\* clamping the argument and without evaluating the polynomial.
C6_FreezePointBelowThreshold ==
    (IsMethod("calc_freeze_point") /\ arg < freeze_threshold)
    => (ret = 0 /\ calls = << >> /\ built = << >>)

C6_Witness ==
    /\ IsMethod("calc_freeze_point")
    /\ arg < self.c_min
    /\ ret = 0
    /\ self.t_freeze # 0

\* the freeze point the specification gives a concentration
freeze_point_of(c) ==
    IF c < freeze_threshold THEN 0 ELSE polynomial(coefficient_freeze, c)

\* C7: an EthylAlcohol has t_min = t_freeze = the freeze point of its stored
\* concentration c: 0 below 0.05, else the polynomial at c.
C7_FreezePointOfStoredConcentration ==
    (Constructed /\ cls = "EthylAlcohol")
    => (/\ self.t_min = self.t_freeze
        /\ self.t_freeze = freeze_point_of(self.c))

C7_Witness ==
    /\ Constructed
    /\ cls = "EthylAlcohol"
    /\ op = "__init__"
    /\ arg.conc[1] > Ethyl_c_max
    /\ self.c = Ethyl_c_max
    /\ self.t_freeze = polynomial(coefficient_freeze, Ethyl_c_max)
    /\ self.t_freeze # polynomial(coefficient_freeze, arg.conc[1])

\* C8 as stated: row i (from 0) of every coefficient table has 4 - i entries.
C8_RowsHaveFourMinusI ==
    (Constructed /\ op \in TableNames)
    => \A i \in 1 .. Len(ret) : Len(ret[i]) = 4 - (i - 1)

Min(a, b) == IF a < b THEN a ELSE b

\* C8 as amended: every coefficient table has six rows, and row i (from 0) has
\* min(4, 6 - i) entries: 4, 4, 4, 3, 2, 1.
C8_RowsHaveMelinderShape ==
    (Constructed /\ op \in TableNames)
    => (/\ Len(ret) = 6
        /\ \A i \in 1 .. Len(ret) : Len(ret[i]) = Min(4, 6 - (i - 1)))

C8_Witness ==
    /\ Constructed
    /\ op = "coefficient_viscosity"
    /\ Len(ret) = 6
    /\ Len(ret[2]) = 4
    /\ Len(ret[6]) = 1

\* C9: once the constructor has returned, no operation changes the attributes
\* of the object.
C9_QueriesLeaveTheObjectAlone ==
    [][Constructed => (self' = self /\ cls' = cls /\ pc' = pc)]_vars

C9_Witness ==
    /\ IsMethod("calc_freeze_point")
    /\ built # << >>
    /\ ret # self.t_freeze
    /\ ret # self.t_min

\* C10: for an object with t_min < t_max, _check_temperature applied to its
\* own result returns that result.
C10_ClampIsIdempotent ==
    (Constructed /\ self.t_min < self.t_max)
    => \A x \in Temps :
          check_temperature(self, check_temperature(self, x).ret).ret
             = check_temperature(self, x).ret

C10_Witness ==
    /\ IsMethod("_check_temperature")
    /\ self.t_min < self.t_max
    /\ arg < self.t_min
    /\ ret = self.t_min
    /\ check_temperature(self, ret).ret = ret

====
